---- MODULE Spec2Model ----
(***************************************************************************)
(* Model registry, in-memory artifact cache and prediction log of the ML   *)
(* model serving API (app/api/models.py, app/api/predict.py,               *)
(* app/models/model_loader.py, app/db/models.py, app/core/config.py).      *)
(*                                                                         *)
(* The handlers are `async def` coroutines on one event loop: a handler    *)
(* runs without interruption between two `await`s.  upload_model and       *)
(* batch_predict each contain one `await file.read()`, so each is two      *)
(* steps; delete_model, predict, get_model, list_models contain none and   *)
(* are one step each.  Under Spec the requests are served one at a time;   *)
(* ManageSpec and PredictSpec are Spec restricted to one router each.      *)
(* RaceSpec, UploadSpec, ConcSpec and RestartSpec let requests run while  *)
(* others are suspended at their await.                                    *)
(***************************************************************************)
EXTENDS Integers, Sequences, FiniteSets, TLC

VARIABLES
    records,      \* table ml_models, rows in insertion order
    nextId,       \* next value of the ml_models.id sequence
    predictions,  \* table predictions, rows in insertion order
    files,        \* model storage directory: path -> payload
    models,       \* ModelLoader.models: name -> loaded artifact
    now,          \* datetime.utcnow(), as a logical clock
    calls,        \* number of times an artifact's predict() has been invoked
    inflight,     \* requests suspended at their `await file.read()`
    resp          \* response produced by the last step (NoResp if none)

vars == <<records, nextId, predictions, files, models, now, calls, inflight, resp>>

----------------------------------------------------------------------------
(* Bounds of the model *)

MaxClock == 1       \* the clock takes the values 0..MaxClock
MaxId == 2          \* ids handed out by the ml_models.id sequence
MaxCalls == 1       \* inference invocations
MaxInflight == 2    \* requests suspended at an await at the same time

----------------------------------------------------------------------------
(* Program constants *)

MAX_MODEL_SIZE_MB == 500
BytesPerMB == 1024 * 1024
supported_frameworks == {"sklearn", "pickle"}

----------------------------------------------------------------------------
(* Inputs *)

Names == {"m", "m_v1"}
Versions == {"2", "1_v2"}
Frameworks == {"pickle", "onnx"}                  \* form field of an upload
LoaderFrameworks == {"sklearn", "pickle", "onnx"}  \* argument of load_model
Filenames == {"f"}
NoVersion == "None"           \* the query parameter `version` left out
QueryVersions == Versions \cup {NoVersion, ""}   \* `version` of a predict request
Admins == {1}                 \* users passing require_admin
Users == {1, 2}               \* users passing get_current_active_user

\* Arguments of direct calls of the registry's methods
LoaderPaths == {"m_v2_f", "m_v1_v2_f"}

\* Uploaded byte strings.  len is len(content); pickle / joblib say what
\* pickle.load / joblib.load make of the bytes: the number of features of the
\* predictor they yield, or 0 when they raise.
Payloads ==
    { [id |-> "pk1", len |-> MAX_MODEL_SIZE_MB * BytesPerMB, pickle |-> 1, joblib |-> 1],
      [id |-> "jz2", len |-> 1, pickle |-> 0, joblib |-> 2],
      [id |-> "bad", len |-> 0, pickle |-> 0, joblib |-> 0],
      [id |-> "big", len |-> MAX_MODEL_SIZE_MB * BytesPerMB + 1, pickle |-> 1, joblib |-> 1] }

\* Request bodies of /predict: the number of columns of a rectangular
\* matrix, or 0 for rows of different lengths.
Inputs == {0, 1, 2}

\* Files sent to /batch_predict: the extension of file.filename, and the
\* number of columns pandas.read_csv parses from the bytes (0: it raises).
CsvExtensions == {".csv", ".txt"}
CsvBodies == {0, 1, 2}

\* Query parameters of GET /models
Skips == {0, 1}
Limits == {1, 100}

\* time.time() - start_time
Latencies == {2}

----------------------------------------------------------------------------
(* Dictionaries *)

EmptyMap == [k \in {} |-> 0]
Put(f, k, v) == [x \in (DOMAIN f) \cup {k} |-> IF x = k THEN v ELSE f[x]]
Drop(f, k) == [x \in (DOMAIN f) \ {k} |-> f[x]]

Min(a, b) == IF a < b THEN a ELSE b

----------------------------------------------------------------------------
(* app/models/model_loader.py: class ModelLoader.  The methods are          *)
(* operators over the cache `cache` (self.models) and the storage          *)
(* directory `fs`; a raised exception is the field exc of the result.      *)

\* joblib.load / pickle.load of the bytes: the predictor, or "raise"
Deserialize(framework, content) ==
    LET dim == IF framework = "sklearn" THEN content.joblib ELSE content.pickle
    IN  [raised |-> (dim = 0), model |-> [src |-> content.id, dim |-> dim]]

\* mutant of load_model: the artifact is returned but not cached
load_model_nocache(cache, fs, model_name, file_path, framework) ==
    IF file_path \notin DOMAIN fs \/ framework \notin {"sklearn", "pickle"}
       \/ Deserialize(framework, fs[file_path]).raised
    THEN [exc |-> "Exception", cause |-> "Error loading model", models |-> cache, model |-> <<>>]
    ELSE [exc |-> "none", cause |-> "", models |-> cache,
          model |-> <<Deserialize(framework, fs[file_path]).model>>]

\* mutant of load_model: the cache entry is written before the bytes are
\* deserialized, so a failed load leaves an entry behind
load_model_cache_first(cache, fs, model_name, file_path, framework) ==
    IF file_path \notin DOMAIN fs
    THEN [exc |-> "FileNotFoundError", cause |-> "Model file not found", models |-> cache, model |-> <<>>]
    ELSE IF framework \notin {"sklearn", "pickle"} \/ Deserialize(framework, fs[file_path]).raised
    THEN [exc |-> "Exception", cause |-> "Error loading model",
          models |-> Put(cache, model_name, Deserialize(framework, fs[file_path]).model),
          model |-> <<>>]
    ELSE [exc |-> "none", cause |-> "",
          models |-> Put(cache, model_name, Deserialize(framework, fs[file_path]).model),
          model |-> <<Deserialize(framework, fs[file_path]).model>>]

\* load_model, lines 16-44
load_model(cache, fs, model_name, file_path, framework) ==
    IF file_path \notin DOMAIN fs
    THEN [exc |-> "FileNotFoundError", cause |-> "Model file not found", models |-> cache, model |-> <<>>]
    ELSE IF framework \notin {"sklearn", "pickle"}
    THEN [exc |-> "Exception", cause |-> "Unsupported framework", models |-> cache, model |-> <<>>]
    ELSE LET d == Deserialize(framework, fs[file_path])
         IN  IF d.raised
             THEN [exc |-> "Exception", cause |-> "Error loading model", models |-> cache, model |-> <<>>]
             ELSE [exc |-> "none", cause |-> "", models |-> Put(cache, model_name, d.model), model |-> <<d.model>>]

\* mutant of get_model_cached: a name that is not loaded gets a stand-in
\* artifact instead of the ValueError
get_model_cached_default(cache, model_name) ==
    IF model_name \notin DOMAIN cache
    THEN [exc |-> "none", model |-> <<[src |-> "pk1", dim |-> 1]>>]
    ELSE [exc |-> "none", model |-> <<cache[model_name]>>]

\* get_model, lines 46-50
get_model_cached(cache, model_name) ==
    IF model_name \notin DOMAIN cache
    THEN [exc |-> "ValueError", model |-> <<>>]
    ELSE [exc |-> "none", model |-> <<cache[model_name]>>]

\* mutant of unload_model: the entry stays in the cache
unload_model_noop(cache, model_name) == cache

\* mutant of unload_model: the whole cache is emptied
unload_model_clear(cache, model_name) == EmptyMap

\* unload_model, lines 52-55
unload_model(cache, model_name) ==
    IF model_name \in DOMAIN cache THEN Drop(cache, model_name) ELSE cache

\* model.predict(input_data) of a loaded artifact on a matrix of `cols`
\* columns: raises on a feature-count mismatch
Infer(model, cols) ==
    IF model.dim = cols
    THEN [raised |-> FALSE, out |-> <<model.src, cols>>]
    ELSE [raised |-> TRUE, out |-> <<>>]

\* mutant of loader_predict: get_model is called inside the try block, so a
\* missing cache entry is reported as a prediction error
loader_predict_wrapped(cache, model_name, cols) ==
    IF model_name \notin DOMAIN cache
    THEN [exc |-> "Exception", cause |-> "InferenceError", invoked |-> FALSE,
          out |-> <<>>, models |-> cache]
    ELSE IF cache[model_name].dim # cols
    THEN [exc |-> "Exception", cause |-> "InferenceError", invoked |-> TRUE,
          out |-> <<>>, models |-> cache]
    ELSE [exc |-> "none", cause |-> "", invoked |-> TRUE,
          out |-> <<cache[model_name].src, cols>>, models |-> cache]

\* mutant of loader_predict: the entry is dropped from the cache once it has
\* been used
loader_predict_evicting(cache, model_name, cols) ==
    IF model_name \notin DOMAIN cache
    THEN [exc |-> "ValueError", cause |-> "NotLoaded", invoked |-> FALSE,
          out |-> <<>>, models |-> cache]
    ELSE IF cache[model_name].dim # cols
    THEN [exc |-> "Exception", cause |-> "InferenceError", invoked |-> TRUE,
          out |-> <<>>, models |-> Drop(cache, model_name)]
    ELSE [exc |-> "none", cause |-> "", invoked |-> TRUE,
          out |-> <<cache[model_name].src, cols>>, models |-> Drop(cache, model_name)]

\* predict, lines 57-64.  get_model is called outside the try block, so
\* its ValueError is not wrapped.  The field models is self.models afterwards.
loader_predict(cache, model_name, cols) ==
    LET g == get_model_cached(cache, model_name)
    IN  IF g.exc # "none"
        THEN [exc |-> "ValueError", cause |-> "NotLoaded", invoked |-> FALSE,
              out |-> <<>>, models |-> cache]
        ELSE LET r == Infer(g.model[1], cols)
             IN  IF r.raised
                 THEN [exc |-> "Exception", cause |-> "InferenceError", invoked |-> TRUE,
                       out |-> <<>>, models |-> cache]
                 ELSE [exc |-> "none", cause |-> "", invoked |-> TRUE,
                       out |-> r.out, models |-> cache]

\* save_uploaded_model, lines 66-73
save_uploaded_model(fs, file_content, filename) == Put(fs, filename, file_content)

\* mutant of delete_model_file: the file is left on storage
delete_model_file_noop(fs, file_path) == fs

\* delete_model_file, lines 75-79
delete_model_file(fs, file_path) ==
    IF file_path \in DOMAIN fs THEN Drop(fs, file_path) ELSE fs

----------------------------------------------------------------------------
(* Queries on the tables *)

\* db.query(MLModel).filter(MLModel.name == name)
by_name(rows, name) == SelectSeq(rows, LAMBDA r : r.name = name)

\* db.query(MLModel).filter(MLModel.is_active == True)
active_models(rows) == SelectSeq(rows, LAMBDA r : r.is_active)

\* db.query(MLModel).filter(MLModel.name == name, MLModel.is_active == True)
active_by_name(rows, name) == SelectSeq(rows, LAMBDA r : r.name = name /\ r.is_active)

\* mutant of resolve_model: the version filter is never added
resolve_model_any_version(rows, name, version) == active_by_name(rows, name)

\* the query of predict / batch_predict, lines 46-53: `if version:` adds the
\* version filter unless version is None or the empty string
resolve_model(rows, name, version) ==
    IF version \notin {NoVersion, ""}
    THEN SelectSeq(active_by_name(rows, name), LAMBDA r : r.version = version)
    ELSE active_by_name(rows, name)

\* .offset(skip).limit(limit).all()
offset_limit(rows, skip, limit) ==
    SubSeq(rows, skip + 1, Min(Len(rows), skip + limit))

----------------------------------------------------------------------------
(* Requests and responses.  A response carries the calling user only when  *)
(* the handler has written current_user.id (a successful prediction);      *)
(* elsewhere the user field is 0.                                          *)

Slots == 1 .. MaxInflight

Idle == [op |-> "idle", name |-> "", version |-> "", framework |-> "",
         filename |-> "", user |-> 0, model_id |-> 0]

NoResp == [op |-> "none", name |-> "", code |-> 0, err |-> "", user |-> 0,
           body |-> <<>>, total |-> 0]

Response(op, name, user, code, err, body) ==
    [op |-> op, name |-> name, code |-> code, err |-> err, user |-> user,
     body |-> body, total |-> Len(body)]

FreeSlots == {s \in Slots : inflight[s].op = "idle"}
\* a request that suspends takes the lowest free slot
FreeSlot == CHOOSE s \in FreeSlots : \A t \in FreeSlots : s <= t

Init ==
    /\ records = <<>>
    /\ nextId = 1
    /\ predictions = <<>>
    /\ files = EmptyMap
    /\ models = EmptyMap
    /\ now = 0
    /\ calls = 0
    /\ inflight = [s \in Slots |-> Idle]
    /\ resp = NoResp

----------------------------------------------------------------------------
(* app/api/models.py *)

\* list_models, lines 34-45
list_models(skip, limit) ==
    /\ resp' = [Response("list", "", 0, 200, "",
                         offset_limit(active_models(records), skip, limit))
                EXCEPT !.total = Len(active_models(records))]
    /\ UNCHANGED <<records, nextId, predictions, files, models, now, calls, inflight>>

\* what get_model answers in a state, lines 55-63
get_model_response(rows, model_name) ==
    LET model == active_by_name(rows, model_name)
    IN  IF model = <<>>
        THEN Response("get", model_name, 0, 404, "NotFound", <<>>)
        ELSE Response("get", model_name, 0, 200, "", <<model[1]>>)

\* get_model, lines 48-63
get_model(model_name) ==
    /\ resp' = get_model_response(records, model_name)
    /\ UNCHANGED <<records, nextId, predictions, files, models, now, calls, inflight>>

\* mutant of existing_model: only active records count as duplicates
existing_model_active(rows, name) == active_by_name(rows, name)

\* line 79: db.query(MLModel).filter(MLModel.name == name).first()
existing_model(rows, name) == by_name(rows, name)

\* line 101: f"{name}_v{version}_{file.filename}"
storage_filename(name, version, filename) ==
    name \o "_v" \o version \o "_" \o filename

\* mutant of too_large: the size is truncated to whole megabytes
too_large_floor(content) == content.len \div BytesPerMB > MAX_MODEL_SIZE_MB

\* line 94: len(content) / (1024 * 1024) > settings.MAX_MODEL_SIZE_MB
too_large(content) == content.len > MAX_MODEL_SIZE_MB * BytesPerMB

\* mutant of new_model: the column default of is_active is False
new_model_inactive(id, name, version, framework, file_path, user) ==
    [id |-> id, name |-> name, version |-> version, framework |-> framework,
     file_path |-> file_path, updated_at |-> now,
     is_active |-> FALSE, uploaded_by |-> user]

\* lines 108-115: the row of the new record (description and created_at
\* are written here and read by no handler; they are left out)
new_model(id, name, version, framework, file_path, user) ==
    [id |-> id, name |-> name, version |-> version, framework |-> framework,
     file_path |-> file_path, updated_at |-> now,
     is_active |-> TRUE, uploaded_by |-> user]

\* upload_model up to its `await file.read()`, lines 78-92
upload_model_begin(name, version, framework, filename, user) ==
    /\ UNCHANGED <<records, nextId, predictions, files, models, now, calls>>
    /\ IF existing_model(records, name) # <<>>
       THEN /\ resp' = Response("upload", name, 0, 400, "DuplicateName", <<>>)
            /\ UNCHANGED inflight
       ELSE IF framework \notin supported_frameworks
       THEN /\ resp' = Response("upload", name, 0, 400, "UnsupportedFramework", <<>>)
            /\ UNCHANGED inflight
       ELSE /\ FreeSlots # {}
            /\ inflight' = [inflight EXCEPT ![FreeSlot] =
                   [op |-> "upload", name |-> name, version |-> version,
                    framework |-> framework, filename |-> filename,
                    user |-> user, model_id |-> 0]]
            /\ resp' = NoResp

\* upload_model from the return of `await file.read()`, lines 92-131;
\* content is what the read returned, io_ok whether open()/write() worked
upload_model_finish(s, content, io_ok) ==
    LET rq == inflight[s]
        file_path == storage_filename(rq.name, rq.version, rq.filename)
        saved == save_uploaded_model(files, content, file_path)
        row == new_model(nextId, rq.name, rq.version, rq.framework, file_path, rq.user)
        loaded == load_model(models, saved, rq.name, file_path, rq.framework)
    IN
    /\ rq.op = "upload"
    /\ inflight' = [inflight EXCEPT ![s] = Idle]
    /\ UNCHANGED <<predictions, now, calls>>
    /\ IF too_large(content)
       THEN /\ resp' = Response("upload", rq.name, 0, 400, "PayloadTooLarge", <<>>)
            /\ UNCHANGED <<records, nextId, files, models>>
       ELSE IF ~io_ok
       THEN \* lines 104-105
            /\ resp' = Response("upload", rq.name, 0, 500, "SaveFailed", <<>>)
            /\ UNCHANGED <<records, nextId, files, models>>
       ELSE IF by_name(records, rq.name) # <<>>
       THEN \* line 118: the unique index on name rejects the INSERT; the
            \* IntegrityError reaches the global exception handler
            /\ resp' = Response("upload", rq.name, 0, 500, "IntegrityError", <<>>)
            /\ files' = saved
            /\ UNCHANGED <<records, nextId, models>>
       ELSE /\ nextId < MaxId + 1
            /\ nextId' = nextId + 1
            /\ IF loaded.exc # "none"
               THEN \* lines 124-129
                    /\ records' = records
                    /\ files' = delete_model_file(saved, file_path)
                    /\ models' = loaded.models
                    /\ resp' = Response("upload", rq.name, 0, 500, "LoadFailed", <<>>)
               ELSE /\ records' = Append(records, row)
                    /\ files' = saved
                    /\ models' = loaded.models
                    /\ resp' = Response("upload", rq.name, 0, 201, "", <<row>>)

\* mutant of soft_delete: the row is removed from the table
soft_delete_hard(rows, name) == SelectSeq(rows, LAMBDA r : r.name # name)

\* lines 147-148: model.is_active = False; db.commit().  The UPDATE is
\* emitted only when the flag changes, and fires onupdate of updated_at.
soft_delete(rows, name) ==
    [i \in 1 .. Len(rows) |->
        IF rows[i].name = name /\ rows[i].is_active
        THEN [rows[i] EXCEPT !.is_active = FALSE, !.updated_at = now]
        ELSE rows[i]]

\* line 141: db.query(MLModel).filter(MLModel.name == model_name).first()
delete_lookup(rows, model_name) == by_name(rows, model_name)

\* delete_model, lines 134-156
delete_model(model_name, user) ==
    /\ UNCHANGED <<nextId, predictions, files, now, calls, inflight>>
    /\ IF delete_lookup(records, model_name) = <<>>
       THEN /\ resp' = Response("delete", model_name, 0, 404, "NotFound", <<>>)
            /\ UNCHANGED <<records, models>>
       ELSE /\ records' = soft_delete(records, model_name)
            /\ models' = unload_model(models, model_name)
            /\ resp' = Response("delete", model_name, 0, 204, "", <<>>)

----------------------------------------------------------------------------
(* app/api/predict.py *)

\* lines 74-80 and 135-141: the row of the prediction log
prediction_record(model_id, user, input_data, output_data, latency) ==
    [id |-> Len(predictions) + 1, model_id |-> model_id, user_id |-> user,
     input_data |-> input_data, output_data |-> output_data,
     latency |-> latency]

\* mutant of run_and_log: the log row is written before the outcome of the
\* inference is known
run_and_log_always(op, model_name, model_id, user, cols, input_data, latency) ==
    LET r == loader_predict(models, model_name, cols)
    IN  /\ r.invoked => calls < MaxCalls
        /\ calls' = IF r.invoked THEN calls + 1 ELSE calls
        /\ models' = r.models
        /\ predictions' = Append(predictions,
               [id |-> Len(predictions) + 1, model_id |-> model_id, user_id |-> user,
                input_data |-> input_data, output_data |-> r.out, latency |-> latency])
        /\ resp' = IF r.exc # "none"
                   THEN Response(op, model_name, 0, 500, r.cause, <<>>)
                   ELSE Response(op, model_name, user, 200, "", r.out)

\* lines 63-88 and 124-150: run the registry's predict, log on success
run_and_log(op, model_name, model_id, user, cols, input_data, latency) ==
    LET r == loader_predict(models, model_name, cols)
    IN  /\ r.invoked => calls < MaxCalls
        /\ calls' = IF r.invoked THEN calls + 1 ELSE calls
        /\ models' = r.models
        /\ IF r.exc # "none"
           THEN /\ resp' = Response(op, model_name, 0, 500, r.cause, <<>>)
                /\ UNCHANGED predictions
           ELSE /\ predictions' = Append(predictions,
                       prediction_record(model_id, user, input_data, r.out, latency))
                /\ resp' = Response(op, model_name, user, 200, "", r.out)

\* predict, lines 35-88; data is the request body, latency the measured time
predict(model_name, version, user, data, latency) ==
    LET db_model == resolve_model(records, model_name, version)
    IN
    /\ UNCHANGED <<records, nextId, files, now, inflight>>
    /\ IF db_model = <<>>
       THEN /\ resp' = Response("predict", model_name, 0, 404, "NotFound", <<>>)
            /\ UNCHANGED <<predictions, calls, models>>
       ELSE IF data = 0
       THEN \* lines 58-61: numpy.array raises on rows of different lengths
            /\ resp' = Response("predict", model_name, 0, 400, "InvalidInput", <<>>)
            /\ UNCHANGED <<predictions, calls, models>>
       ELSE run_and_log("predict", model_name, db_model[1].id, user, data,
                        [kind |-> "json", file |-> "", cols |-> data], latency)

\* batch_predict up to its `await file.read()`, lines 101-119
batch_predict_begin(model_name, version, user, ext) ==
    LET db_model == resolve_model(records, model_name, version)
    IN
    /\ UNCHANGED <<records, nextId, predictions, files, models, now, calls>>
    /\ IF db_model = <<>>
       THEN /\ resp' = Response("batch_predict", model_name, 0, 404, "NotFound", <<>>)
            /\ UNCHANGED inflight
       ELSE IF ext # ".csv"
       THEN /\ resp' = Response("batch_predict", model_name, 0, 400, "NotCsv", <<>>)
            /\ UNCHANGED inflight
       ELSE /\ FreeSlots # {}
            /\ inflight' = [inflight EXCEPT ![FreeSlot] =
                   [op |-> "batch_predict", name |-> model_name, version |-> "",
                    framework |-> "", filename |-> "d" \o ext,
                    user |-> user, model_id |-> db_model[1].id]]
            /\ resp' = NoResp

\* batch_predict from the return of `await file.read()`, lines 119-150;
\* cols is what pandas.read_csv makes of the bytes read
batch_predict_finish(s, cols, latency) ==
    LET rq == inflight[s]
    IN
    /\ rq.op = "batch_predict"
    /\ inflight' = [inflight EXCEPT ![s] = Idle]
    /\ UNCHANGED <<records, nextId, files, now>>
    /\ IF cols = 0
       THEN /\ resp' = Response("batch_predict", rq.name, 0, 400, "CsvError", <<>>)
            /\ UNCHANGED <<predictions, calls, models>>
       ELSE run_and_log("batch_predict", rq.name, rq.model_id, rq.user, cols,
                        [kind |-> "batch", file |-> rq.filename, cols |-> cols], latency)

\* get_metrics, lines 153-181.  db is a sqlalchemy.orm.Session (line 2,
\* line 155), which has no attribute `func`: evaluating db.func at line 165
\* raises AttributeError after the two counts of lines 160-161 have been
\* queried, in every state; the global exception handler of app/main.py
\* (lines 80-86) answers 500.
get_metrics ==
    /\ resp' = Response("metrics", "", 0, 500, "AttributeError", <<>>)
    /\ UNCHANGED <<records, nextId, predictions, files, models, now, calls, inflight>>

----------------------------------------------------------------------------
(* Direct calls of the methods of the global model_loader.  The response   *)
(* of a call carries the raised exception's class in err ("none" when the  *)
(* call returns) and the returned value in body.                           *)

\* model_loader.save_uploaded_model(content, filename)
LoaderSave(content, filename) ==
    /\ files' = save_uploaded_model(files, content, filename)
    /\ resp' = Response("save", filename, 0, 0, "none", <<filename>>)
    /\ UNCHANGED <<records, nextId, predictions, models, now, calls, inflight>>

\* model_loader.load_model(model_name, file_path, framework)
LoaderLoad(model_name, file_path, framework) ==
    LET r == load_model(models, files, model_name, file_path, framework)
    IN  /\ models' = r.models
        /\ resp' = Response("load", model_name, 0, 0, r.exc, r.model)
        /\ UNCHANGED <<records, nextId, predictions, files, now, calls, inflight>>

\* model_loader.unload_model(model_name)
LoaderUnload(model_name) ==
    /\ models' = unload_model(models, model_name)
    /\ resp' = Response("unload", model_name, 0, 0, "none", <<>>)
    /\ UNCHANGED <<records, nextId, predictions, files, now, calls, inflight>>

\* model_loader.delete_model_file(file_path)
LoaderDeleteFile(file_path) ==
    /\ files' = delete_model_file(files, file_path)
    /\ resp' = Response("delete_file", file_path, 0, 0, "none", <<>>)
    /\ UNCHANGED <<records, nextId, predictions, models, now, calls, inflight>>

----------------------------------------------------------------------------
(* Environment *)

\* time passes
Tick ==
    /\ now < MaxClock
    /\ now' = now + 1
    /\ resp' = NoResp
    /\ UNCHANGED <<records, nextId, predictions, files, models, calls, inflight>>

\* the process is restarted: model_loader = ModelLoader() starts with an
\* empty cache, requests in progress are lost, tables and files are kept
Restart ==
    /\ models' = EmptyMap
    /\ inflight' = [s \in Slots |-> Idle]
    /\ resp' = NoResp
    /\ UNCHANGED <<records, nextId, predictions, files, now, calls>>

----------------------------------------------------------------------------
(* Specifications *)

ListModels == \E k \in Skips, l \in Limits : list_models(k, l)
GetModel == \E n \in Names : get_model(n)
UploadBegin ==
    \E n \in Names, v \in Versions, f \in Frameworks, fn \in Filenames, u \in Admins :
        upload_model_begin(n, v, f, fn, u)
UploadFinish == \E s \in Slots, c \in Payloads, ok \in BOOLEAN : upload_model_finish(s, c, ok)
DeleteModel == \E n \in Names, u \in Admins : delete_model(n, u)
Predict ==
    \E n \in Names, v \in QueryVersions, u \in Users, d \in Inputs, l \in Latencies :
        predict(n, v, u, d, l)
BatchBegin ==
    \E n \in Names, v \in QueryVersions, u \in Users, e \in CsvExtensions :
        batch_predict_begin(n, v, u, e)
BatchFinish == \E s \in Slots, c \in CsvBodies, l \in Latencies : batch_predict_finish(s, c, l)
\* prediction requests that leave the query parameter `version` out
PredictLatest ==
    \E n \in Names, u \in Users, d \in Inputs, l \in Latencies :
        predict(n, NoVersion, u, d, l)
BatchBeginLatest ==
    \E n \in Names, u \in Users, e \in CsvExtensions :
        batch_predict_begin(n, NoVersion, u, e)
GetMetrics == get_metrics

\* Requests are served one at a time: none starts while another is
\* suspended at its await.  Time may pass and the process may be restarted
\* at any point.
NoneRunning == FreeSlots = Slots

Next ==
    \/ NoneRunning /\ ListModels
    \/ NoneRunning /\ GetModel
    \/ NoneRunning /\ UploadBegin
    \/ UploadFinish
    \/ NoneRunning /\ DeleteModel
    \/ NoneRunning /\ Predict
    \/ NoneRunning /\ BatchBegin
    \/ BatchFinish
    \/ NoneRunning /\ GetMetrics
    \/ Tick
    \/ Restart

Spec == Init /\ [][Next]_vars

\* The model-management endpoints alone (the router of app/api/models.py)
ManageNext ==
    \/ NoneRunning /\ ListModels
    \/ NoneRunning /\ GetModel
    \/ NoneRunning /\ UploadBegin
    \/ UploadFinish
    \/ NoneRunning /\ DeleteModel
    \/ Tick
    \/ Restart

ManageSpec == Init /\ [][ManageNext]_vars

\* The prediction endpoints (the router of app/api/predict.py), with the
\* uploads and deletes that give them records and cached artifacts
PredictNext ==
    \/ NoneRunning /\ UploadBegin
    \/ UploadFinish
    \/ NoneRunning /\ DeleteModel
    \/ NoneRunning /\ Predict
    \/ NoneRunning /\ BatchBegin
    \/ BatchFinish
    \/ Restart

PredictSpec == Init /\ [][PredictNext]_vars

UploadRunning == \E s \in Slots : inflight[s].op = "upload"
BatchRunning == \E s \in Slots : inflight[s].op = "batch_predict"

\* One upload at a time, with deletes running at any point, also while the
\* upload is suspended at its await
RaceNext ==
    \/ ~UploadRunning /\ UploadBegin
    \/ UploadFinish
    \/ DeleteModel

RaceSpec == Init /\ [][RaceNext]_vars

\* Uploads in progress together: an upload may begin or a delete run while
\* other uploads are suspended at their await
UploadNext ==
    \/ UploadBegin
    \/ UploadFinish
    \/ DeleteModel

UploadSpec == Init /\ [][UploadNext]_vars

\* Requests of every kind in progress together: deletes and predictions run
\* at any point, also while an upload or a batch prediction is suspended at
\* its await; at most one upload and one batch prediction are suspended at
\* a time.  The prediction requests name no version.
ConcNext ==
    \/ ~UploadRunning /\ UploadBegin
    \/ UploadFinish
    \/ DeleteModel
    \/ PredictLatest
    \/ ~BatchRunning /\ BatchBeginLatest
    \/ BatchFinish

ConcSpec == Init /\ [][ConcNext]_vars

\* The process is restarted at any point.  Deletes and predictions run at
\* any point, also while an upload or a batch prediction is suspended at
\* its await; one request is suspended at a time.  The prediction requests
\* name no version.
RestartNext ==
    \/ NoneRunning /\ UploadBegin
    \/ UploadFinish
    \/ DeleteModel
    \/ PredictLatest
    \/ NoneRunning /\ BatchBeginLatest
    \/ BatchFinish
    \/ Restart

RestartSpec == Init /\ [][RestartNext]_vars

\* Requests of every kind served one at a time within one process lifetime
\* (no restart)
ServeNext ==
    \/ NoneRunning /\ ListModels
    \/ NoneRunning /\ UploadBegin
    \/ UploadFinish
    \/ NoneRunning /\ DeleteModel
    \/ NoneRunning /\ PredictLatest
    \/ NoneRunning /\ BatchBeginLatest
    \/ BatchFinish
    \/ NoneRunning /\ GetMetrics

ServeSpec == Init /\ [][ServeNext]_vars

\* The registry alone: its methods called directly, in any order
Save == \E c \in Payloads, p \in LoaderPaths : LoaderSave(c, p)
Load == \E n \in Names, p \in LoaderPaths, f \in LoaderFrameworks : LoaderLoad(n, p, f)
Unload == \E n \in Names : LoaderUnload(n)
DeleteFile == \E p \in LoaderPaths : LoaderDeleteFile(p)

LoaderNext ==
    \/ Save
    \/ Load
    \/ Unload
    \/ DeleteFile

LoaderSpec == Init /\ [][LoaderNext]_vars

----------------------------------------------------------------------------
(* Properties *)

\* the step answers a request of one of the kinds `ops` for the name n, or
\* suspends a request: every step of a handler for n does one of the two
AnswersOrSuspends(ops, n) ==
    \/ resp'.op \in ops /\ resp'.name = n
    \/ resp'.op = "none" /\ inflight' # inflight

IsUploadOk == resp.op = "upload" /\ resp.code = 201

\* C1: after an upload that answers 201, an active record with that name
\* exists and the cache holds an artifact under the name: get_model answers
\* 200 with that record, the predict handlers resolve the record, and the
\* registry's predict on the name is not NotLoaded and succeeds on a matrix
\* with the artifact's number of features.
C1_UploadSuccess ==
    IsUploadOk =>
        /\ Len(active_by_name(records, resp.name)) = 1
        /\ resp.name \in DOMAIN models
        /\ get_model_response(records, resp.name).code = 200
        /\ get_model_response(records, resp.name).body = resp.body
        /\ resolve_model(records, resp.name, NoVersion) = resp.body
        /\ \A d \in Inputs : loader_predict(models, resp.name, d).cause # "NotLoaded"
        /\ \E d \in Inputs : loader_predict(models, resp.name, d).exc = "none"

C1_Witness == IsUploadOk /\ Len(records) = 2

\* C2: when an upload answers LoadFailed, no record with its name exists,
\* the file it wrote is not on storage and the cache has no entry for the name.
C2_LoadFailedRollsBack ==
    [][\A s \in Slots :
          (inflight[s].op = "upload" /\ inflight'[s].op = "idle"
             /\ resp'.op = "upload" /\ resp'.err = "LoadFailed")
          => /\ by_name(records', inflight[s].name) = <<>>
             /\ storage_filename(inflight[s].name, inflight[s].version,
                                  inflight[s].filename) \notin DOMAIN files'
             /\ inflight[s].name \notin DOMAIN models']_vars

C2_Witness == resp.op = "upload" /\ resp.err = "LoadFailed" /\ records # <<>>

\* C3: an upload whose name already has a record, active or soft-deleted,
\* whatever its version, answers DuplicateName and changes no record, no
\* file and no cache entry.
C3_DuplicateName ==
    [][\A n \in Names :
          ((\E i \in 1 .. Len(records) : records[i].name = n)
              /\ AnswersOrSuspends({"upload"}, n)) =>
          \A v \in Versions, f \in Frameworks, fn \in Filenames, u \in Admins :
             upload_model_begin(n, v, f, fn, u)
             => /\ resp'.code = 400 /\ resp'.err = "DuplicateName"
                /\ UNCHANGED <<records, files, models, inflight>>]_vars

C3_Witness ==
    /\ resp.op = "upload" /\ resp.err = "DuplicateName"
    /\ \E i \in 1 .. Len(records) : records[i].name = resp.name /\ ~records[i].is_active

\* C4: a delete answers 204 only when an active record with the name
\* exists; with no record or only a soft-deleted one it answers 404.
C4_DeleteNeedsActive ==
    [][\A n \in Names, u \in Admins :
          (delete_model(n, u) /\ active_by_name(records, n) = <<>>)
          => resp'.code = 404 /\ resp'.err = "NotFound"]_vars

Inactive(n) == \E i \in 1 .. Len(records) : records[i].name = n /\ ~records[i].is_active

C5_State ==
    /\ (resp.op = "delete" /\ resp.code = 204) => Inactive(resp.name)
    /\ \A n \in Names : Inactive(n) =>
          /\ get_model_response(records, n).code = 404
          /\ \A k \in Skips, l \in Limits :
                \A i \in 1 .. Len(offset_limit(active_models(records), k, l)) :
                    offset_limit(active_models(records), k, l)[i].name # n
          /\ Len(active_models(records))
                = Cardinality({i \in 1 .. Len(records) : records[i].is_active})
          /\ n \notin DOMAIN models

\* C5: with requests served one at a time, in every state after a delete
\* has answered 204 the record is inactive, get_model answers 404 for the
\* name, no page of the listing contains it, the listing's count counts only
\* active records, and the cache has no entry for the name.
C5_AfterDelete ==
    /\ []C5_State
    /\ [][\A n \in Names : Inactive(n) => Inactive(n)']_vars

C5_Witness ==
    /\ resp.op = "delete" /\ resp.code = 204
    /\ Len(active_models(records)) = 1
    /\ DOMAIN models # {}

\* C6 as stated: a delete changes only the is_active flag of the record and
\* the cache entry of the name.
C6_OnlyFlag ==
    [][\A n \in Names, u \in Admins :
          delete_model(n, u) =>
            /\ records' = [i \in 1 .. Len(records) |->
                              IF records[i].name = n
                              THEN [records[i] EXCEPT !.is_active = FALSE]
                              ELSE records[i]]
            /\ files' = files
            /\ models' = [x \in (DOMAIN models) \ {n} |-> models[x]]
            /\ predictions' = predictions]_vars

\* C6 amended: a delete changes only the is_active flag and the updated_at
\* timestamp of the record and the cache entry of the name; the row is
\* retained, every file stays, every other record, cache entry and log row
\* is unchanged.
C6_DeleteFrame ==
    [][\A n \in Names, u \in Admins :
          delete_model(n, u) =>
            /\ Len(records') = Len(records)
            /\ \A i \in 1 .. Len(records) :
                  IF records[i].name = n
                  THEN /\ records'[i] = [records[i] EXCEPT !.is_active = FALSE,
                                             !.updated_at = records'[i].updated_at]
                       /\ records'[i].updated_at \in {records[i].updated_at, now}
                  ELSE records'[i] = records[i]
            /\ files' = files
            /\ models' = [x \in (DOMAIN models) \ {n} |-> models[x]]
            /\ predictions' = predictions]_vars

C6_Witness ==
    /\ resp.op = "delete" /\ resp.code = 204
    /\ Len(records) = 2
    /\ \E i \in 1 .. Len(records) :
          /\ records[i].name = resp.name
          /\ records[i].updated_at = 1
          /\ records[i].file_path \in DOMAIN files
    /\ DOMAIN models # {}

\* C7: an upload with an unsupported framework, or with more bytes than
\* MAX_MODEL_SIZE_MB megabytes, answers 400 and writes no file, creates no
\* record and leaves the cache as it was.
C7_RejectedBeforeWrite ==
    [][/\ \A f \in Frameworks \ {"sklearn", "pickle"} :
          \A n \in {x \in Names : AnswersOrSuspends({"upload"}, x)} :
          \A v \in Versions, fn \in Filenames, u \in Admins :
            upload_model_begin(n, v, f, fn, u)
            => resp'.code = 400 /\ UNCHANGED <<records, files, models, inflight>>
       /\ \A c \in {x \in Payloads : x.len > MAX_MODEL_SIZE_MB * BytesPerMB} :
          \A s \in Slots, ok \in BOOLEAN :
            upload_model_finish(s, c, ok)
            => /\ resp'.code = 400 /\ resp'.err = "PayloadTooLarge"
               /\ UNCHANGED <<records, files, models>>
       /\ (resp'.op = "upload" /\ resp'.err \in {"UnsupportedFramework", "PayloadTooLarge"})
            => UNCHANGED <<records, files, models>>]_vars

C7_Witness ==
    /\ resp.op = "upload" /\ resp.err = "PayloadTooLarge"
    /\ records # <<>>

NoActiveMatch(n, v) ==
    ~ \E i \in 1 .. Len(records) :
          /\ records[i].name = n
          /\ records[i].is_active
          /\ (v \in {NoVersion, ""} \/ records[i].version = v)

\* C8: a predict or batch_predict request for a name with no active record
\* matching the name (and the version, when a non-empty one is given)
\* answers 404 without invoking an artifact and without writing a log row,
\* also when an artifact is cached under the name.  Stated contrapositively:
\* a step that is not such a 404 is no step of predict(n, v, ..) or
\* batch_predict_begin(n, v, ..) for any n, v without an active match.
C8_PredictNotFound ==
    [][/\ (resp'.op = "predict"
             /\ ~(/\ resp'.code = 404 /\ resp'.err = "NotFound"
                  /\ UNCHANGED <<predictions, calls, models>>))
          => \A v \in QueryVersions :
                NoActiveMatch(resp'.name, v) =>
                \A u \in Users, d \in Inputs, l \in Latencies :
                    ~predict(resp'.name, v, u, d, l)
       /\ (resp'.op = "batch_predict"
             /\ ~(/\ resp'.code = 404 /\ resp'.err = "NotFound"
                  /\ UNCHANGED <<predictions, calls, models, inflight>>))
          => \A v \in QueryVersions :
                NoActiveMatch(resp'.name, v) =>
                \A u \in Users, e \in CsvExtensions :
                    ~batch_predict_begin(resp'.name, v, u, e)
       /\ \A s \in Slots :
             (inflight[s].op = "idle" /\ inflight'[s].op = "batch_predict")
             => \A v \in QueryVersions :
                   NoActiveMatch(inflight'[s].name, v) =>
                   \A u \in Users, e \in CsvExtensions :
                       ~batch_predict_begin(inflight'[s].name, v, u, e)]_vars

C8_Witness ==
    /\ resp.op \in {"predict", "batch_predict"} /\ resp.code = 404
    /\ resp.name \in DOMAIN models

ReachedRegistry ==
    resp.op \in {"predict", "batch_predict"} /\ resp.code \in {200, 500}

\* C9: when a predict request reaches the registry's predict, it fails with
\* NotLoaded exactly when the name is absent from the cache, and the cache
\* is the same afterwards: nothing is loaded on demand.
C9_NotLoaded ==
    [][ReachedRegistry' =>
          /\ (resp'.err = "NotLoaded") <=> (resp'.name \notin DOMAIN models)
          /\ models' = models]_vars

C9_Witness ==
    /\ ReachedRegistry /\ resp.err = "NotLoaded"
    /\ active_by_name(records, resp.name) # <<>>
    /\ DOMAIN models # {}

IsPredictOk == resp.op \in {"predict", "batch_predict"} /\ resp.code = 200

\* C10: the prediction log only grows at its end, by exactly one row per
\* predict request that answers 200, the row referencing the resolved record
\* and the calling user; no other step changes the log.
C10_LogAppendOnly ==
    [][IF IsPredictOk'
       THEN /\ predictions' = Append(predictions, predictions'[Len(predictions')])
            /\ predictions'[Len(predictions')].user_id = resp'.user
            /\ resolve_model(records, resp'.name, NoVersion) # <<>>
            /\ predictions'[Len(predictions')].model_id
                  = resolve_model(records, resp'.name, NoVersion)[1].id
       ELSE predictions' = predictions]_vars

C10_Witness ==
    /\ IsPredictOk /\ resp.op = "batch_predict" /\ resp.user = 2
    /\ Len(predictions) = 1

CachedIsActive == \A n \in DOMAIN models : active_by_name(records, n) # <<>>

\* C11: an upload and deletes of the same name, interleaved in every way the
\* event loop allows (a delete runs before the upload, while it is suspended
\* at its await, or after it), end as one of the two sequential orders: a
\* delete that runs while the upload is suspended answers and acts as it
\* would have before the upload began (it finds no record: 404, nothing
\* changed), and the upload resumes in a state where its duplicate and
\* framework checks still pass, so it acts as if it had started there and
\* never hits the unique index.  In every state a cached name has an active
\* record.
C11_UploadDeleteSerial ==
    /\ []CachedIsActive
    /\ [][\A s \in Slots :
            inflight[s].op = "upload" =>
              /\ (resp'.op = "delete" /\ resp'.name = inflight[s].name)
                    => /\ resp'.code = 404
                       /\ UNCHANGED <<records, files, models, inflight>>
              /\ inflight'[s].op = "idle"
                    => /\ existing_model(records, inflight[s].name) = <<>>
                       /\ inflight[s].framework \in supported_frameworks
                       /\ resp'.op = "upload" /\ resp'.name = inflight[s].name
                       /\ resp'.err # "IntegrityError"]_vars

\* a delete has just run while an upload of the same name is suspended
C11_Witness ==
    \E s \in Slots :
        /\ inflight[s].op = "upload"
        /\ resp.op = "delete" /\ resp.name = inflight[s].name
        /\ records # <<>>

EndsPredict == resp.op \in {"predict", "batch_predict"}

\* C12 as stated: a predict request that runs interleaved with deletes ends
\* either with NotFound / NotLoaded and no log row, or with 200, the output
\* of the artifact cached under the name and one log row; records and cache
\* are as the deletes alone leave them.
C12_TwoOutcomes ==
    [][EndsPredict' =>
          /\ records' = records /\ models' = models
          /\ IF resp'.code = 200
             THEN /\ resp'.name \in DOMAIN models
                  /\ resp'.body[1] = models[resp'.name].src
                  /\ Len(predictions') = Len(predictions) + 1
                  /\ SubSeq(predictions', 1, Len(predictions)) = predictions
                  /\ predictions'[Len(predictions')].output_data = resp'.body
             ELSE /\ resp'.err \in {"NotFound", "NotLoaded"}
                  /\ predictions' = predictions]_vars

\* C12 amended: the failures also include those the request's own input
\* causes (InvalidInput, a file that is not CSV or does not parse,
\* InferenceError); they too write no log row.
C12_DeletePredict ==
    [][EndsPredict' =>
          /\ records' = records /\ models' = models
          /\ IF resp'.code = 200
             THEN /\ resp'.name \in DOMAIN models
                  /\ resp'.body[1] = models[resp'.name].src
                  /\ Len(predictions') = Len(predictions) + 1
                  /\ SubSeq(predictions', 1, Len(predictions)) = predictions
                  /\ predictions'[Len(predictions')].output_data = resp'.body
             ELSE /\ resp'.err \in {"NotFound", "NotLoaded", "InvalidInput",
                                     "NotCsv", "CsvError", "InferenceError"}
                  /\ resp'.code \in {400, 404, 500}
                  /\ predictions' = predictions]_vars

\* a batch prediction resumed after a delete of its model ran during its await
C12_Witness ==
    /\ resp.op = "batch_predict" /\ resp.err = "NotLoaded"
    /\ Inactive(resp.name)
    /\ predictions # <<>>

\* why a load of file_path as framework fails on the storage fs, in the
\* order load_model looks at it
LoadFailure(fs, file_path, framework) ==
    IF file_path \notin DOMAIN fs THEN "FileNotFound"
    ELSE IF framework \notin supported_frameworks THEN "UnsupportedFramework"
    ELSE IF Deserialize(framework, fs[file_path]).raised THEN "LoadFailed"
    ELSE "none"

\* C13: load_model reports FileNotFound, UnsupportedFramework and LoadFailed
\* as three distinguishable failures (two loads that fail for different
\* reasons raise different exceptions); a failed load leaves the cache as it
\* was, and a successful one returns the artifact it has stored under the
\* name.
C13_LoadFailures ==
    \A n \in Names, p \in LoaderPaths, f \in LoaderFrameworks :
        LET r == load_model(models, files, n, p, f)
        IN  /\ (r.exc = "none") <=> (LoadFailure(files, p, f) = "none")
            /\ r.exc # "none" => r.models = models
            /\ r.exc = "none" =>
                  /\ r.models = Put(models, n, r.model[1])
                  /\ r.model[1] = Deserialize(f, files[p]).model
            /\ \A p2 \in LoaderPaths, f2 \in LoaderFrameworks :
                  LoadFailure(files, p, f) # LoadFailure(files, p2, f2)
                  => r.exc # load_model(models, files, n, p2, f2).exc

\* C14: unload_model removes exactly the entry under the name when there is
\* one and does nothing when there is none, raising no error either way;
\* unloading twice is unloading once; no other cache entry, no record, no
\* file and no log row changes.
C14_Unload ==
    [][\A n \in Names :
          LoaderUnload(n) =>
            /\ resp'.err = "none"
            /\ DOMAIN models' = (DOMAIN models) \ {n}
            /\ \A x \in DOMAIN models' : models'[x] = models[x]
            /\ n \notin DOMAIN models => models' = models
            /\ unload_model(models', n) = models'
            /\ UNCHANGED <<records, files, predictions>>]_vars

\* an entry has just been unloaded; the other entry and the files are there
C14_Witness ==
    /\ resp.op = "unload"
    /\ resp.name \notin DOMAIN models
    /\ DOMAIN models # {}
    /\ DOMAIN files = LoaderPaths

\* C15: get_metrics changes nothing and answers 200 with total_predictions
\* the number of log rows, total_active_models the number of active records,
\* one count per model with the number of log rows referencing it, and an
\* average latency of 0 when the log is empty.
C15_Metrics ==
    [][resp'.op = "metrics" =>
          /\ UNCHANGED <<records, predictions, files, models>>
          /\ resp'.code = 200
          /\ resp'.total = 1
          /\ resp'.body[1].total_predictions = Len(predictions)
          /\ resp'.body[1].total_active_models
                = Cardinality({i \in 1 .. Len(records) : records[i].is_active})
          /\ \A i \in 1 .. Len(records) :
                resp'.body[1].predictions_by_model[records[i].name]
                  = Cardinality({k \in 1 .. Len(predictions) :
                                    predictions[k].model_id = records[i].id})
          /\ predictions = <<>> => resp'.body[1].average_latency_seconds = 0]_vars

\* the step is the second part of the upload suspended in slot s
Resumes(s) == inflight[s].op = "upload" /\ inflight'[s].op = "idle"

\* C16: of two uploads of one name in progress together, the one that comes
\* second to the record insert (its bytes are not too many and its file
\* write does not fail) answers DuplicateName as a client error and leaves
\* the winner's record, file and cached artifact as they are, so that one
\* record exists and file and artifact are the winner's bytes.
C16_ConcurrentUploads ==
    [][\A s \in Slots :
          (/\ Resumes(s)
           /\ by_name(records, inflight[s].name) # <<>>
           /\ resp'.err \notin {"PayloadTooLarge", "SaveFailed"}) =>
             /\ resp'.op = "upload" /\ resp'.name = inflight[s].name
             /\ resp'.code = 400 /\ resp'.err = "DuplicateName"
             /\ Len(by_name(records', inflight[s].name)) = 1
             /\ UNCHANGED <<records, files, models>>]_vars

\* the step inserts the record of the upload suspended in slot s: the id
\* sequence advances only at the INSERT of line 118
Inserts(s) == Resumes(s) /\ nextId' # nextId

\* C17: the step in which an upload inserts its record is also the step in
\* which it attempts the load and terminates (no await separates lines 118
\* and 123), in one of two states: the artifact made from its bytes is cached
\* under the name, the record is there and 201 is answered, or the record
\* and the file at its path are gone and LoadFailed is answered.  No upload
\* terminates leaving a record of its name that it inserted without a cached
\* artifact, and none answers 201 without record and artifact.
C17_InsertThenLoad ==
    [][\A s \in Slots :
          LET n == inflight[s].name
              file_path == storage_filename(n, inflight[s].version, inflight[s].filename)
          IN  /\ Inserts(s) =>
                    /\ inflight'[s] = Idle
                    /\ resp'.op = "upload" /\ resp'.name = n
                    /\ \/ /\ resp'.code = 201
                          /\ n \in DOMAIN models'
                          /\ file_path \in DOMAIN files'
                          /\ models'[n].src = files'[file_path].id
                          /\ records' = Append(records, resp'.body[1])
                          /\ resp'.body[1].name = n /\ resp'.body[1].is_active
                       \/ /\ resp'.code = 500 /\ resp'.err = "LoadFailed"
                          /\ records' = records
                          /\ by_name(records', n) = <<>>
                          /\ file_path \notin DOMAIN files'
              /\ (Resumes(s) /\ records' # records) => (Inserts(s) /\ n \in DOMAIN models')
              /\ (Resumes(s) /\ resp'.code = 201) => Inserts(s)]_vars

\* an upload has answered LoadFailed while another upload is suspended and
\* a record exists
C17_Witness ==
    /\ resp.op = "upload" /\ resp.err = "LoadFailed"
    /\ UploadRunning
    /\ records # <<>>

ActiveNames == {records[i].name : i \in {k \in 1 .. Len(records) : records[k].is_active}}

\* C18: with requests served one at a time and no restart, after any
\* sequence of upload, delete, predict, batch_predict, list and metrics
\* requests the names in the cache are exactly the names of the active
\* records.
C18_CacheIsActiveNames == DOMAIN models = ActiveNames

\* one model deleted, one still active and cached, a prediction logged
C18_Witness ==
    /\ NoneRunning
    /\ Len(records) = 2
    /\ Cardinality(ActiveNames) = 1
    /\ DOMAIN models = ActiveNames
    /\ predictions # <<>>

\* C19: no upload, whether it succeeds or is rolled back, overwrites or
\* deletes the stored file of a record with another name: the file at the
\* storage path of every such record is there afterwards with the bytes it
\* had.
C19_OtherFilesKept ==
    [][\A s \in Slots :
          Resumes(s) =>
            \A i \in 1 .. Len(records) :
               (/\ records[i].name # inflight[s].name
                /\ records[i].file_path \in DOMAIN files)
               => /\ records[i].file_path \in DOMAIN files'
                  /\ files'[records[i].file_path] = files[records[i].file_path]]_vars

\* C20: in every state, under every interleaving of uploads (with their
\* rollbacks), deletes and prediction requests, every row of the prediction
\* log references a record that is in the table.
C20_LogReferencesRecord ==
    \A k \in 1 .. Len(predictions) :
        \E i \in 1 .. Len(records) : records[i].id = predictions[k].model_id

\* an upload has been rolled back while a batch prediction is suspended and
\* the log has a row
C20_Witness ==
    /\ resp.op = "upload" /\ resp.err = "LoadFailed"
    /\ BatchRunning
    /\ predictions # <<>>

\* the name has a record and no cache entry, as every name with a record has
\* after a restart
Unloaded(n) == by_name(records, n) # <<>> /\ n \notin DOMAIN models

\* what C21 says of the cache: a step puts a name into the cache only when
\* it is the second part of an upload of that name which finds no record of
\* the name, inserts one and answers 201; so a name that has a record and no
\* cache entry never gets one, whatever requests follow
CacheOnlyByUpload ==
    /\ \A n \in (DOMAIN models') \ (DOMAIN models) :
          /\ by_name(records, n) = <<>>
          /\ \E s \in Slots : Inserts(s) /\ inflight[s].name = n
          /\ resp'.op = "upload" /\ resp'.name = n /\ resp'.code = 201
    /\ \A n \in Names : Unloaded(n) => Unloaded(n)'

\* C21 as stated: the cache is written as CacheOnlyByUpload says, and every
\* predict request for an active record whose name has no cache entry fails
\* with NotLoaded.
C21_NotLoadedForever ==
    [][/\ CacheOnlyByUpload
       /\ (/\ EndsPredict'
            /\ Unloaded(resp'.name)
            /\ active_by_name(records, resp'.name) # <<>>)
          => /\ resp'.code = 500 /\ resp'.err = "NotLoaded"
             /\ UNCHANGED <<predictions, models>>]_vars

\* C21 amended: such a request never succeeds; it fails with NotLoaded as
\* soon as it reaches the registry, or before that with the 400 its own
\* input causes (InvalidInput, a file that is not CSV or does not parse).
C21_NeverReloaded ==
    [][/\ CacheOnlyByUpload
       /\ (/\ EndsPredict'
            /\ Unloaded(resp'.name)
            /\ active_by_name(records, resp'.name) # <<>>)
          => /\ \/ resp'.code = 500 /\ resp'.err = "NotLoaded"
                \/ resp'.code = 400 /\ resp'.err \in {"InvalidInput", "NotCsv", "CsvError"}
             /\ calls' = calls
             /\ UNCHANGED <<predictions, models>>]_vars

\* after a restart a prediction for a still active record has answered
\* NotLoaded, while a model uploaded since the restart is cached
C21_Witness ==
    /\ EndsPredict /\ resp.err = "NotLoaded"
    /\ Len(active_models(records)) = 2
    /\ Cardinality(DOMAIN models) = 1
    /\ resp.name \notin DOMAIN models

====
